---- MODULE Spec2Model ----
(***************************************************************************)
(* bresenham-rs (src/lib.rs): the octant normaliser (Octant) and the       *)
(* incremental line walker (Bresenham, BresenhamInclusive).                *)
(*                                                                         *)
(* A Point (isize, isize) is the tuple <<p.0, p.1>>, so p.0 is p[1] and    *)
(* p.1 is p[2].  An Option<Point> is a sequence of length at most one:     *)
(* None is <<>> and Some(p) is <<p>>.  The Bresenham struct is a record    *)
(* with the struct's fields.  All coordinates are drawn from a small grid, *)
(* far from the limits of isize, so no arithmetic of the code overflows.   *)
(***************************************************************************)
EXTENDS Integers, Sequences, FiniteSets

\* Coordinates of start and end range over -MaxCoord..MaxCoord.
MaxCoord == 3

\* The consumer makes at most MaxAdvance direct advance() calls on a walk.
MaxAdvance == 2

Coords == (0 - MaxCoord)..MaxCoord
Grid == Coords \X Coords

\* No walk over the grid produces this many points; the consumer of a walk
\* stops pulling points there (it never does, for the code as written).
MaxEmit == 2 * MaxCoord + MaxAdvance + 2

Abs(n) == IF n < 0 THEN 0 - n ELSE n
Max(m, n) == IF m < n THEN n ELSE m
Min(m, n) == IF m < n THEN m ELSE n
Range(s) == {s[i] : i \in 1..Len(s)}

None == <<>>
Some(p) == <<p>>

\* The value of an arm that panics (unreachable!()): no Point at all.
Unreachable == <<>>

(***************************************************************************)
(* Octant                                                                  *)
(***************************************************************************)

\* A slip in the second reduction: the half-plane swap forgets its tag.
from_points_noswaptag(start, end) ==
    LET dx0 == end[1] - start[1]
        dy0 == end[2] - start[2]
        neg == dy0 < 0
        dx1 == IF neg THEN 0 - dx0 ELSE dx0
        dy1 == IF neg THEN 0 - dy0 ELSE dy0
        o1  == IF neg THEN 4 ELSE 0
        sw  == dx1 < 0
        dx2 == IF sw THEN dy1 ELSE dx1
        dy2 == IF sw THEN 0 - dx1 ELSE dy1
    IN  IF dx2 < dy2 THEN o1 + 1 ELSE o1

\* A tie-break slip: steep lines detected with <= instead of <.
from_points_le(start, end) ==
    LET dx0 == end[1] - start[1]
        dy0 == end[2] - start[2]
        neg == dy0 < 0
        dx1 == IF neg THEN 0 - dx0 ELSE dx0
        dy1 == IF neg THEN 0 - dy0 ELSE dy0
        o1  == IF neg THEN 4 ELSE 0
        sw  == dx1 < 0
        dx2 == IF sw THEN dy1 ELSE dx1
        dy2 == IF sw THEN 0 - dx1 ELSE dy1
        o2  == IF sw THEN o1 + 2 ELSE o1
    IN  IF dx2 <= dy2 THEN o2 + 1 ELSE o2

\* Octant::from_points: the tag of the octant the line start -> end lies in.
from_points(start, end) ==
    LET dx0 == end[1] - start[1]
        dy0 == end[2] - start[2]
        \* if dy < 0 { dx = -dx; dy = -dy; octant += 4 }
        neg == dy0 < 0
        dx1 == IF neg THEN 0 - dx0 ELSE dx0
        dy1 == IF neg THEN 0 - dy0 ELSE dy0
        o1  == IF neg THEN 4 ELSE 0
        \* if dx < 0 { tmp = dx; dx = dy; dy = -tmp; octant += 2 }
        sw  == dx1 < 0
        dx2 == IF sw THEN dy1 ELSE dx1
        dy2 == IF sw THEN 0 - dx1 ELSE dy1
        o2  == IF sw THEN o1 + 2 ELSE o1
        \* if dx < dy { octant += 1 }
    IN  IF dx2 < dy2 THEN o2 + 1 ELSE o2

\* The forward table with the entries of tags 2 and 6 exchanged.
to_octant0_swapped26(octant, p) ==
    CASE octant = 0 -> <<p[1], p[2]>>
      [] octant = 1 -> <<p[2], p[1]>>
      [] octant = 2 -> <<0 - p[2], p[1]>>
      [] octant = 3 -> <<0 - p[1], p[2]>>
      [] octant = 4 -> <<0 - p[1], 0 - p[2]>>
      [] octant = 5 -> <<0 - p[2], 0 - p[1]>>
      [] octant = 6 -> <<p[2], 0 - p[1]>>
      [] octant = 7 -> <<p[1], 0 - p[2]>>
      [] OTHER -> Unreachable

\* Octant::to_octant0: the point p seen in octant 0.
to_octant0(octant, p) ==
    CASE octant = 0 -> <<p[1], p[2]>>
      [] octant = 1 -> <<p[2], p[1]>>
      [] octant = 2 -> <<p[2], 0 - p[1]>>
      [] octant = 3 -> <<0 - p[1], p[2]>>
      [] octant = 4 -> <<0 - p[1], 0 - p[2]>>
      [] octant = 5 -> <<0 - p[2], 0 - p[1]>>
      [] octant = 6 -> <<0 - p[2], p[1]>>
      [] octant = 7 -> <<p[1], 0 - p[2]>>
      [] OTHER -> Unreachable

\* The inverse table with tag 2 written like the forward table's tag 2.
from_octant0_copied2(octant, p) ==
    CASE octant = 0 -> <<p[1], p[2]>>
      [] octant = 1 -> <<p[2], p[1]>>
      [] octant = 2 -> <<p[2], 0 - p[1]>>
      [] octant = 3 -> <<0 - p[1], p[2]>>
      [] octant = 4 -> <<0 - p[1], 0 - p[2]>>
      [] octant = 5 -> <<0 - p[2], 0 - p[1]>>
      [] octant = 6 -> <<p[2], 0 - p[1]>>
      [] octant = 7 -> <<p[1], 0 - p[2]>>
      [] OTHER -> Unreachable

\* Octant::from_octant0: the octant-0 point p seen in the line's octant.
from_octant0(octant, p) ==
    CASE octant = 0 -> <<p[1], p[2]>>
      [] octant = 1 -> <<p[2], p[1]>>
      [] octant = 2 -> <<0 - p[2], p[1]>>
      [] octant = 3 -> <<0 - p[1], p[2]>>
      [] octant = 4 -> <<0 - p[1], 0 - p[2]>>
      [] octant = 5 -> <<0 - p[2], 0 - p[1]>>
      [] octant = 6 -> <<p[2], 0 - p[1]>>
      [] octant = 7 -> <<p[1], 0 - p[2]>>
      [] OTHER -> Unreachable

(***************************************************************************)
(* Bresenham and BresenhamInclusive, as functions of the struct            *)
(***************************************************************************)

\* new() starting the error accumulator at dy instead of dy - dx.
new_diffdy(start, end) ==
    LET octant == from_points(start, end)
        s == to_octant0(octant, start)
        e == to_octant0(octant, end)
        dx == e[1] - s[1]
        dy == e[2] - s[2]
    IN  [x |-> s[1], y |-> s[2], dx |-> dx, dy |-> dy, x1 |-> e[1],
         diff |-> dy, octant |-> octant]

\* new() storing the canonical delta dx as the terminal x.
new_x1delta(start, end) ==
    LET octant == from_points(start, end)
        s == to_octant0(octant, start)
        e == to_octant0(octant, end)
        dx == e[1] - s[1]
        dy == e[2] - s[2]
    IN  [x |-> s[1], y |-> s[2], dx |-> dx, dy |-> dy, x1 |-> dx,
         diff |-> dy - dx, octant |-> octant]

\* Bresenham::new: the struct for the line start -> end.
new(start, end) ==
    LET octant == from_points(start, end)
        s == to_octant0(octant, start)
        e == to_octant0(octant, end)
        dx == e[1] - s[1]
        dy == e[2] - s[2]
    IN  [x |-> s[1], y |-> s[2], dx |-> dx, dy |-> dy, x1 |-> e[1],
         diff |-> dy - dx, octant |-> octant]

\* advance() testing diff > 0 instead of diff >= 0.
advance_strict(self) ==
    LET p == <<self.x, self.y>>
        step == self.diff > 0
        y1 == IF step THEN self.y + 1 ELSE self.y
        d1 == IF step THEN self.diff - self.dx ELSE self.diff
    IN  [self |-> [self EXCEPT !.y = y1, !.diff = d1 + self.dy, !.x = self.x + 1],
         p |-> from_octant0(self.octant, p)]

\* advance() without its loop increment of x.
advance_nox(self) ==
    LET p == <<self.x, self.y>>
        step == self.diff >= 0
        y1 == IF step THEN self.y + 1 ELSE self.y
        d1 == IF step THEN self.diff - self.dx ELSE self.diff
    IN  [self |-> [self EXCEPT !.y = y1, !.diff = d1 + self.dy],
         p |-> from_octant0(self.octant, p)]

\* Bresenham::advance: the struct after the call, and the point returned.
advance(self) ==
    LET p == <<self.x, self.y>>
        \* if self.diff >= 0 { self.y += 1; self.diff -= self.dx }
        step == self.diff >= 0
        y1 == IF step THEN self.y + 1 ELSE self.y
        d1 == IF step THEN self.diff - self.dx ELSE self.diff
        \* self.diff += self.dy; self.x += 1
    IN  [self |-> [self EXCEPT !.y = y1, !.diff = d1 + self.dy, !.x = self.x + 1],
         p |-> from_octant0(self.octant, p)]

\* Bresenham's next() stopping one step late (> instead of >=).
Bresenham_next_late(self) ==
    IF self.x > self.x1
    THEN [self |-> self, item |-> None]
    ELSE LET a == advance(self) IN [self |-> a.self, item |-> Some(a.p)]

\* Bresenham's next() testing the terminal x with == instead of >=.
Bresenham_next_eq(self) ==
    IF self.x = self.x1
    THEN [self |-> self, item |-> None]
    ELSE LET a == advance(self) IN [self |-> a.self, item |-> Some(a.p)]

\* Bresenham's next() stepping the walk before it tests the terminal x.
Bresenham_next_stepfirst(self) ==
    LET a == advance(self)
    IN  IF self.x >= self.x1
        THEN [self |-> a.self, item |-> None]
        ELSE [self |-> a.self, item |-> Some(a.p)]

\* <Bresenham as Iterator>::next: the struct after the call, and the item.
Bresenham_next(self) ==
    IF self.x >= self.x1
    THEN [self |-> self, item |-> None]
    ELSE LET a == advance(self) IN [self |-> a.self, item |-> Some(a.p)]

\* BresenhamInclusive's next() stopping like the exclusive one (>=).
BresenhamInclusive_next_early(self) ==
    IF self.x >= self.x1
    THEN [self |-> self, item |-> None]
    ELSE LET a == advance(self) IN [self |-> a.self, item |-> Some(a.p)]

\* <BresenhamInclusive as Iterator>::next, on the wrapped struct self.0.
BresenhamInclusive_next(self) ==
    IF self.x > self.x1
    THEN [self |-> self, item |-> None]
    ELSE LET a == advance(self) IN [self |-> a.self, item |-> Some(a.p)]

\* BresenhamInclusive::new: the newtype over Bresenham::new(start, end).
BresenhamInclusive_new(start, end) == new(start, end)

\* advance() of the newtype that looks at the next point without taking it.
BresenhamInclusive_advance_peek(self) == [self |-> self, p |-> advance(self).p]

\* BresenhamInclusive::advance: self.0.advance().
BresenhamInclusive_advance(self) == advance(self)

\* The next() of a walk of the given kind.
next(k, self) ==
    IF k = "Bresenham" THEN Bresenham_next(self) ELSE BresenhamInclusive_next(self)

\* Iterator::collect() on a walk of kind k in state self, as the tests use
\* it: the items of next() up to the first None (at most n of them).
RECURSIVE collect(_, _, _)
collect(k, self, n) ==
    LET r == next(k, self)
    IN  IF r.item = None \/ n = 0 THEN <<>> ELSE r.item \o collect(k, r.self, n - 1)

\* Bresenham::new(start, end).collect()
Exclusive(start, end) == collect("Bresenham", new(start, end), MaxEmit)

\* BresenhamInclusive::new(start, end).collect()
Inclusive(start, end) ==
    collect("BresenhamInclusive", BresenhamInclusive_new(start, end), MaxEmit)

(***************************************************************************)
(* One walk and its consumer                                               *)
(***************************************************************************)

VARIABLES
    kind,     \* "Bresenham" or "BresenhamInclusive": the type of the walk
    start,    \* the arguments of new(start, end)
    end,
    b,        \* the Bresenham struct (self.0 of a BresenhamInclusive)
    ret,      \* the last next(): "Fresh" (not called), "Some" or "None"
    out,      \* the points next() has yielded so far
    emitted,  \* the points returned so far by next() and by advance()
    tag,      \* a probe of the transform tables: the octant tag,
    P,        \*   the point it starts from,
    Q,        \*   the point after the transforms applied so far,
    ops       \*   and the transforms applied ("to" / "from")

wvars == <<kind, start, end, b, ret, out, emitted>>
ovars == <<tag, P, Q, ops>>
vars == <<kind, start, end, b, ret, out, emitted, tag, P, Q, ops>>

Kinds == {"Bresenham", "BresenhamInclusive"}

\* Octant(u8) takes the tags the tables have arms for.
Tags == 0..7

\* The probe applies at most this many transforms.
MaxOps == 2

ProbeIdle ==
    /\ tag = 0
    /\ P = <<0, 0>>
    /\ Q = <<0, 0>>
    /\ ops = <<>>

\* A walk right after Bresenham::new / BresenhamInclusive::new.
Init ==
    /\ kind \in Kinds
    /\ start \in Grid
    /\ end \in Grid
    /\ b = IF kind = "Bresenham" THEN new(start, end)
                                 ELSE BresenhamInclusive_new(start, end)
    /\ ret = "Fresh"
    /\ out = <<>>
    /\ emitted = <<>>
    /\ ProbeIdle

\* The consumer records what a next() call returned.
Pull(r) ==
    /\ r.item = None \/ Len(emitted) < MaxEmit
    /\ b' = r.self
    /\ ret' = IF r.item = None THEN "None" ELSE "Some"
    /\ out' = out \o r.item
    /\ emitted' = emitted \o r.item
    /\ UNCHANGED <<kind, start, end, tag, P, Q, ops>>

\* The consumer records what a direct advance() call returned.
Step(a) ==
    /\ Len(emitted) - Len(out) < MaxAdvance
    /\ Len(emitted) < MaxEmit
    /\ b' = a.self
    /\ emitted' = Append(emitted, a.p)
    /\ UNCHANGED <<kind, start, end, ret, out, tag, P, Q, ops>>

\* A call of <Bresenham as Iterator>::next.
CallNext ==
    /\ kind = "Bresenham"
    /\ Pull(Bresenham_next(b))

\* A call of <BresenhamInclusive as Iterator>::next.
CallNextInclusive ==
    /\ kind = "BresenhamInclusive"
    /\ Pull(BresenhamInclusive_next(b))

\* A direct call of Bresenham::advance.
CallAdvance ==
    /\ kind = "Bresenham"
    /\ Step(advance(b))

\* A direct call of BresenhamInclusive::advance.
CallAdvanceInclusive ==
    /\ kind = "BresenhamInclusive"
    /\ Step(BresenhamInclusive_advance(b))

\* Iteration alone: the consumer only calls next().
Next ==
    \/ CallNext
    \/ CallNextInclusive

Spec == Init /\ [][Next]_vars

\* A consumer that keeps calling next().
SpecFair == Init /\ [][Next]_vars /\ WF_vars(Next)

\* The consumer mixes next() with direct advance() calls.
NextAdvance ==
    \/ CallNext
    \/ CallNextInclusive
    \/ CallAdvance
    \/ CallAdvanceInclusive

SpecAdvance == Init /\ [][NextAdvance]_vars

(***************************************************************************)
(* The transform tables on their own                                       *)
(***************************************************************************)

WalkIdle ==
    /\ kind = "Bresenham"
    /\ start = <<0, 0>>
    /\ end = <<0, 0>>
    /\ b = new(<<0, 0>>, <<0, 0>>)
    /\ ret = "Fresh"
    /\ out = <<>>
    /\ emitted = <<>>

InitOctant ==
    /\ tag \in Tags
    /\ P \in Grid
    /\ Q = P
    /\ ops = <<>>
    /\ WalkIdle

\* self.to_octant0(Q) for the Octant(tag).
ToOctant0 ==
    /\ Len(ops) < MaxOps
    /\ Q' = to_octant0(tag, Q)
    /\ ops' = Append(ops, "to")
    /\ UNCHANGED <<tag, P, kind, start, end, b, ret, out, emitted>>

\* self.from_octant0(Q) for the Octant(tag).
FromOctant0 ==
    /\ Len(ops) < MaxOps
    /\ Q' = from_octant0(tag, Q)
    /\ ops' = Append(ops, "from")
    /\ UNCHANGED <<tag, P, kind, start, end, b, ret, out, emitted>>

NextOctant ==
    \/ ToOctant0
    \/ FromOctant0

SpecOctant == InitOctant /\ [][NextOctant]_vars

(***************************************************************************)
(* Properties                                                              *)
(***************************************************************************)

Exclusive_kind == kind = "Bresenham"
Inclusive_kind == kind = "BresenhamInclusive"

\* s is an initial segment of t.
IsPrefix(s, t) == Len(s) <= Len(t) /\ \A i \in 1..Len(s) : s[i] = t[i]

\* The walk's points in octant 0: the canonical start and end of the line.
CanonStart == to_octant0(b.octant, start)
CanonEnd == to_octant0(b.octant, end)

\* C1: for start = end the exclusive walk yields nothing (its next() never
\* returns a point, so the first call returns None) and the inclusive walk
\* yields the one point start and then None.
C1_Degenerate ==
    start = end =>
        /\ Exclusive_kind => ret # "Some" /\ out = <<>>
        /\ Inclusive_kind =>
              /\ ret = "Fresh" => out = <<>>
              /\ ret = "Some" => out = <<start>>
              /\ ret = "None" => out = <<start>>
        /\ Exclusive(start, end) = <<>>
        /\ Inclusive(start, end) = <<start>>

C1_Witness ==
    /\ start = end
    /\ Inclusive_kind
    /\ ret = "None"
    /\ out = <<start>>
    /\ Exclusive(start, end) = <<>>

\* C2: the inclusive walk yields the points of the exclusive walk of the
\* same line, in the same order, and then end as its last point; so it
\* starts with start and ends with end.
C2_InclusiveIsExclusiveThenEnd ==
    Inclusive_kind =>
        /\ IsPrefix(out, Exclusive(start, end) \o <<end>>)
        /\ ret = "None" =>
              /\ out = Exclusive(start, end) \o <<end>>
              /\ out[1] = start
              /\ out[Len(out)] = end

C2_Witness ==
    /\ Inclusive_kind
    /\ ret = "None"
    /\ Len(out) >= 4
    /\ start[1] > end[1]
    /\ start[2] < end[2]

\* C3: for start # end the exclusive walk yields start first and never
\* yields end.
C3_StartNotEnd ==
    (Exclusive_kind /\ start # end) =>
        /\ out # <<>> => out[1] = start
        /\ ret = "None" => out # <<>>
        /\ end \notin Range(out)

C3_Witness ==
    /\ Exclusive_kind
    /\ start # end
    /\ ret = "None"
    /\ Len(out) >= 3
    /\ out[1] = start

\* C4: the exclusive walk yields max(|end.x - start.x|, |end.y - start.y|)
\* points, which is the canonical terminal x minus the canonical start x.
C4_Length ==
    Exclusive_kind =>
        LET n == Max(Abs(end[1] - start[1]), Abs(end[2] - start[2]))
        IN  /\ n = b.x1 - CanonStart[1]
            /\ Len(out) <= n
            /\ ret = "None" => Len(out) = n

C4_Witness ==
    /\ Exclusive_kind
    /\ ret = "None"
    /\ Len(out) = 2 * MaxCoord
    /\ Abs(end[2] - start[2]) > Abs(end[1] - start[1])

\* The point p mirrored through the midpoint of start and end.
Mirror(p) == <<start[1] + end[1] - p[1], start[2] + end[2] - p[2]>>

\* C5 as stated: the inclusive walks start -> end and end -> start yield
\* the same set of points.
C5_SameSet ==
    (Inclusive_kind /\ ret = "None") =>
        Range(out) = Range(Inclusive(end, start))

\* C5, amended: the inclusive walk end -> start yields the points of the
\* inclusive walk start -> end mirrored through the midpoint of the segment
\* (p -> start + end - p), so both walks yield equally many points.
C5_MirroredSet ==
    (Inclusive_kind /\ ret = "None") =>
        /\ Range(Inclusive(end, start)) = {Mirror(p) : p \in Range(out)}
        /\ Len(Inclusive(end, start)) = Len(out)

C5_Witness ==
    /\ Inclusive_kind
    /\ ret = "None"
    /\ Len(out) >= 3
    /\ Range(out) # Range(Inclusive(end, start))

\* C6: the deltas stored by new are those of the canonical end and start
\* under the tag of from_points, and satisfy dx >= 0 and 0 <= dy <= dx.
C6_CanonicalDeltas ==
    /\ b.octant = from_points(start, end)
    /\ b.dx = CanonEnd[1] - CanonStart[1]
    /\ b.dy = CanonEnd[2] - CanonStart[2]
    /\ b.dx >= 0
    /\ 0 <= b.dy
    /\ b.dy <= b.dx

C6_Witness ==
    /\ ret = "Fresh"
    /\ b.octant = 6
    /\ b.dy > 0
    /\ b.dx > b.dy

\* C7: under every tag, from_octant0 undoes to_octant0 and to_octant0
\* undoes from_octant0, at every point.
C7_RoundTrip ==
    /\ ops = <<"to", "from">> => Q = P
    /\ ops = <<"from", "to">> => Q = P
    /\ from_octant0(tag, to_octant0(tag, P)) = P
    /\ to_octant0(tag, from_octant0(tag, P)) = P

C7_Witness ==
    /\ ops = <<"to", "from">>
    /\ tag = 6
    /\ P = <<1, 2>>
    /\ Q = P

\* C8 as stated: the k-th point of the inclusive walk is, in octant 0,
\* (x0 + k, y) with 2 * |dx * (y - y0) - k * dy| <= dx.
C8_Nearest ==
    Inclusive_kind =>
        \A i \in 1..Len(out) :
            LET c == to_octant0(b.octant, out[i])
                k == i - 1
            IN  /\ c[1] = CanonStart[1] + k
                /\ 2 * Abs(b.dx * (c[2] - CanonStart[2]) - k * b.dy) <= b.dx

\* C9: a consumer that keeps calling next() eventually receives None.
C9_Terminates == <>(ret = "None")

C9_Witness ==
    /\ ret = "None"
    /\ Inclusive_kind
    /\ Len(out) = 2 * MaxCoord + 1

\* C10: over next() and advance() calls canonical x never decreases, and
\* once next() has returned None every later next() returns None.
C10_Irreversible ==
    [][/\ b'.x >= b.x
       /\ ret = "None" => ret' = "None"
       /\ (ret = "None" /\ Exclusive_kind) => b'.x >= b.x1
       /\ (ret = "None" /\ Inclusive_kind) => b'.x > b.x1]_vars

C10_Witness ==
    /\ ret = "None"
    /\ Exclusive_kind
    /\ b.x > b.x1
    /\ Len(out) >= 1

\* The number of direct advance() calls made so far.
Advanced == Len(emitted) - Len(out)

\* All direct advance() calls came before the first next() that yielded.
AdvancedFirst == out = SubSeq(emitted, Advanced + 1, Len(emitted))

\* The sequence s without its first j items (empty when j >= Len(s)).
Drop(s, j) == SubSeq(s, j + 1, Len(s))

\* C11: direct BresenhamInclusive::advance calls consume points: after j of
\* them the iterator yields the inclusive sequence from index j on, nothing
\* when j is at least its length; past the terminal x advance() keeps
\* returning points (never the unreachable arm), those of the same line:
\* the k-th point returned, by next() or advance(), is from_octant0 of
\* (cx0 + k, cy0 + floor(k * dy / dx)) also for k > dx (for start = end,
\* where dx = dy = 0, the stepping rule follows the diagonal).
C11_AdvanceConsumes ==
    Inclusive_kind =>
        /\ \A i \in 1..Len(emitted) :
              /\ emitted[i] # Unreachable
              /\ start # end =>
                    emitted[i] = from_octant0(b.octant,
                        <<CanonStart[1] + (i - 1),
                          CanonStart[2] + ((i - 1) * b.dy) \div b.dx>>)
              /\ start = end =>
                    emitted[i] = <<start[1] + i - 1, start[2] + i - 1>>
        /\ AdvancedFirst =>
              LET full == Inclusive(start, end)
              IN  /\ IsPrefix(out, Drop(full, Advanced))
                  /\ ret = "None" => out = Drop(full, Advanced)
                  /\ Advanced >= Len(full) => out = <<>>

C11_Witness ==
    /\ Inclusive_kind
    /\ start # end
    /\ Advanced = 2
    /\ AdvancedFirst
    /\ ret = "None"
    /\ Len(out) >= 2

\* Past the terminal x: a direct advance() after the walk was exhausted.
C11_WitnessPast ==
    /\ Inclusive_kind
    /\ ret = "None"
    /\ Advanced = 2
    /\ Len(out) >= 3
    /\ b.x = b.x1 + 3

\* floor(k * dy / dx) for the walk's canonical deltas, 0 when dx = 0.
FloorY(k) == IF b.dx = 0 THEN 0 ELSE (k * b.dy) \div b.dx

\* C12: the k-th point (k = 0, 1, ...) yielded by the exclusive and by the
\* inclusive walk is from_octant0 of (cx0 + k, cy0 + floor(k * dy / dx)),
\* (cx0, cy0) the canonical start; the worked sequences of the crate's
\* tests are instances.
C12_ClosedForm ==
    /\ \A i \in 1..Len(out) :
          out[i] = from_octant0(b.octant,
                       <<CanonStart[1] + (i - 1), CanonStart[2] + FloorY(i - 1)>>)
    /\ Exclusive(<<0, 1>>, <<6, 4>>) =
          << <<0, 1>>, <<1, 1>>, <<2, 2>>, <<3, 2>>, <<4, 3>>, <<5, 3>> >>
    /\ Inclusive(<<0, 1>>, <<6, 4>>) =
          << <<0, 1>>, <<1, 1>>, <<2, 2>>, <<3, 2>>, <<4, 3>>, <<5, 3>>, <<6, 4>> >>
    /\ Exclusive(<<6, 4>>, <<0, 1>>) =
          << <<6, 4>>, <<5, 4>>, <<4, 3>>, <<3, 3>>, <<2, 2>>, <<1, 2>> >>
    /\ Inclusive(<<6, 4>>, <<0, 1>>) =
          << <<6, 4>>, <<5, 4>>, <<4, 3>>, <<3, 3>>, <<2, 2>>, <<1, 2>>, <<0, 1>> >>
    /\ Exclusive(<<2, 3>>, <<5, 3>>) = << <<2, 3>>, <<3, 3>>, <<4, 3>> >>
    /\ Inclusive(<<2, 3>>, <<5, 3>>) = << <<2, 3>>, <<3, 3>>, <<4, 3>>, <<5, 3>> >>
    /\ Exclusive(<<2, 3>>, <<2, 6>>) = << <<2, 3>>, <<2, 4>>, <<2, 5>> >>
    /\ Inclusive(<<2, 3>>, <<2, 6>>) = << <<2, 3>>, <<2, 4>>, <<2, 5>>, <<2, 6>> >>

C12_Witness ==
    /\ ret = "None"
    /\ Inclusive_kind
    /\ b.dx = 2 * MaxCoord
    /\ b.dy = 3
    /\ b.octant = 4
    /\ Len(out) = b.dx + 1

\* C13: over next() and advance() calls the octant tag, dx, dy and x1 keep
\* the values Bresenham::new set (a call changes only x, y and diff), and a
\* next() that returns None changes no field of the walk.
C13_Frame ==
    /\ [](/\ b.octant = new(start, end).octant
          /\ b.dx = new(start, end).dx
          /\ b.dy = new(start, end).dy
          /\ b.x1 = new(start, end).x1)
    /\ [][/\ b'.octant = b.octant
          /\ b'.dx = b.dx
          /\ b'.dy = b.dy
          /\ b'.x1 = b.x1
          /\ (ret' = "None" /\ emitted' = emitted) => b' = b]_vars

C13_Witness ==
    /\ ret = "None"
    /\ Exclusive_kind
    /\ Advanced = 1
    /\ Len(out) >= 2
    /\ b.x = b.x1
    /\ b.x # new(start, end).x
    /\ b.y # new(start, end).y

\* C14: from_points returns a tag in 0..7, so neither new nor any advance()
\* reaches an unreachable!() arm of the tables; ties are not taken:
\* start = end, a horizontal line to the right and an exact diagonal up and
\* to the right all get tag 0.
C14_TagInRange ==
    /\ from_points(start, end) \in Tags
    /\ b.octant = from_points(start, end)
    /\ CanonStart # Unreachable
    /\ CanonEnd # Unreachable
    /\ \A i \in 1..Len(emitted) : emitted[i] # Unreachable
    /\ start = end => b.octant = 0
    /\ (end[2] = start[2] /\ end[1] > start[1]) => b.octant = 0
    /\ (end[1] - start[1] = end[2] - start[2] /\ end[1] > start[1]) => b.octant = 0

C14_Witness ==
    /\ end[1] - start[1] = end[2] - start[2]
    /\ end[1] - start[1] >= 2
    /\ b.octant = 0
    /\ Advanced >= 1
    /\ Len(out) >= 1
    /\ ret = "None"

\* The tags whose tables exchange the coordinates: the walk sweeps along y.
SweepsY == {1, 2, 5, 6}

\* C15: consecutive points of the inclusive walk differ by exactly 1 along
\* the swept axis and by 0 or 1 along the other (in octant 0: x grows by 1,
\* y by 0 or 1), so they are 8-connected neighbours, and no point is
\* yielded twice.
C15_NoGaps ==
    Inclusive_kind =>
        /\ \A i \in 1..(Len(out) - 1) :
              LET c == to_octant0(b.octant, out[i])
                  d == to_octant0(b.octant, out[i + 1])
                  ax == Abs(out[i + 1][1] - out[i][1])
                  ay == Abs(out[i + 1][2] - out[i][2])
              IN  /\ d[1] = c[1] + 1
                  /\ d[2] - c[2] \in {0, 1}
                  /\ IF b.octant \in SweepsY THEN ay = 1 /\ ax \in {0, 1}
                                             ELSE ax = 1 /\ ay \in {0, 1}
        /\ \A i, j \in 1..Len(out) : i # j => out[i] # out[j]

C15_Witness ==
    /\ Inclusive_kind
    /\ ret = "None"
    /\ b.octant = 5
    /\ b.dy = 2
    /\ Len(out) = 2 * MaxCoord + 1

\* C16: every point yielded by the exclusive or the inclusive walk lies in
\* the axis-aligned bounding box of start and end.
C16_InBoundingBox ==
    \A i \in 1..Len(out) :
        /\ Min(start[1], end[1]) <= out[i][1]
        /\ out[i][1] <= Max(start[1], end[1])
        /\ Min(start[2], end[2]) <= out[i][2]
        /\ out[i][2] <= Max(start[2], end[2])

C16_Witness ==
    /\ Exclusive_kind
    /\ ret = "None"
    /\ start[1] > end[1]
    /\ start[2] < end[2]
    /\ Len(out) = 2 * MaxCoord
    /\ out[Len(out)][1] = start[1]

\* The point p moved by the offset t.
Translate(p, t) == <<p[1] + t[1], p[2] + t[2]>>

\* C17: for every offset T the inclusive walk from start + T to end + T is
\* the inclusive walk from start to end with T added to each point, in the
\* same order, and has the same octant tag.
C17_TranslationInvariant ==
    (Inclusive_kind /\ ret = "None") =>
        \A t \in Grid :
            /\ Inclusive(Translate(start, t), Translate(end, t))
                   = [i \in 1..Len(out) |-> Translate(out[i], t)]
            /\ from_points(Translate(start, t), Translate(end, t)) = b.octant

C17_Witness ==
    /\ Inclusive_kind
    /\ ret = "None"
    /\ start = <<1, 0 - 2>>
    /\ end = <<0 - 1, 3>>
    /\ Inclusive(Translate(start, <<2, 3>>), Translate(end, <<2, 3>>))
           = [i \in 1..Len(out) |-> Translate(out[i], <<2, 3>>)]

\* C18: for start # end, at construction and after every advance() (also
\* past the terminal x) dy - dx <= diff < dy, and a step raises canonical
\* y by at most one.
C18_DiffBounded ==
    start # end =>
        /\ b.dy - b.dx <= b.diff
        /\ b.diff < b.dy
        /\ b.y - new(start, end).y <= b.x - new(start, end).x
        /\ advance(b).self.y - b.y \in {0, 1}

C18_Witness ==
    /\ start # end
    /\ b.x > b.x1 + 1
    /\ Advanced = MaxAdvance
    /\ b.dy > 0
    /\ b.diff = b.dy - 1
    /\ b.dx > b.dy

====
